---- MODULE Spec2Model ----
(***************************************************************************)
(* A model of the snake game of snake.py: the Snake class (segment chain), *)
(* the spiral initializer new_snake_sized, the apple spawner new_apple and *)
(* the main loop of run_game.                                              *)
(*                                                                         *)
(* Positions are pixel coordinates as in the source (multiples of          *)
(* RECT_SIZE).  The grid is scaled down from the source's 20 x 20 cells to *)
(* COLS x ROWS cells so that the state space is finite and small; the      *)
(* palette of 512 colours is cut to its first NColors entries.             *)
(***************************************************************************)
EXTENDS Integers, Sequences, FiniteSets, TLC

(* ------------------------------ bounds -------------------------------- *)

\* grid width in cells (snake.py has COLS = 20)
COLS == 3
\* grid height in cells (snake.py has ROWS = 20)
ROWS == 3
\* number of palette colours kept from gen_colors()
NColors == 1
\* largest value of the command-line option --size that is explored
MaxInitSize == 3
\* eating is explored only while snake.size is below this
MaxSize == 4
\* game_speed is explored up to its initial value plus this
MaxSpeedUps == 2
\* longest list of points passed to Snake(points, colors) in SnakeSpec
MaxLen == 2
\* new_snake_sized is called with every size from 1 to this
MaxSpiral == 100
\* and with this many sizes on either side of the largest size it accepts
MaxOver == 2

(* --------------------------- grid geometry ---------------------------- *)

RECT_SIZE == 20
WIDTH == RECT_SIZE * COLS
HEIGHT == RECT_SIZE * ROWS

Direction == {"NONE", "UP", "DOWN", "LEFT", "RIGHT"}

RED == <<255, 0, 0>>
WHITE == <<255, 255, 255>>

\* gen_colors(): the list [(r, g, b) for r, g, b in range(50, 206, 20)],
\* of which the first NColors entries (r = g = 50) are kept
gen_colors == [i \in 1..NColors |-> <<50, 50, 50 + 20 * (i - 1)>>]

COLORS == gen_colors

\* random_color(): the values random.choice(COLORS) can return
random_color == {COLORS[i] : i \in 1..Len(COLORS)}

Point(x, y) == [x |-> x, y |-> y]

\* Point.__add__
PointAdd(p, other) == Point(p.x + other.x, p.y + other.y)

Apple(point, color) == [point |-> point, color |-> color]

(* ------------------------------ Snake --------------------------------- *)

_MOVES ==
    [d \in Direction |->
        CASE d = "NONE" -> Point(0, 0)
          [] d = "UP" -> Point(0, -RECT_SIZE)
          [] d = "DOWN" -> Point(0, RECT_SIZE)
          [] d = "LEFT" -> Point(-RECT_SIZE, 0)
          [] d = "RIGHT" -> Point(RECT_SIZE, 0)]

\* Snake.__init__ for non-empty points and len(points) = len(colors)
Snake(points, colors) ==
    [points |-> points, size |-> Len(points), direction |-> "NONE", colors |-> colors]

head(self) == self.points[1]

current_move(self) == _MOVES[self.direction]

\* the head stopped at the edge it crosses instead of wrapped
_move_through_walls_clamped(point) ==
    LET px == IF point.x < 0 THEN 0
              ELSE IF point.x + RECT_SIZE > WIDTH THEN WIDTH - RECT_SIZE
              ELSE point.x
        py == IF point.y < 0 THEN 0
              ELSE IF point.y + RECT_SIZE > HEIGHT THEN HEIGHT - RECT_SIZE
              ELSE point.y
    IN Point(px, py)

_move_through_walls(point) ==
    LET px == IF point.x < 0 THEN WIDTH - RECT_SIZE
              ELSE IF point.x + RECT_SIZE > WIDTH THEN 0
              ELSE point.x
        py == IF point.y < 0 THEN HEIGHT - RECT_SIZE
              ELSE IF point.y + RECT_SIZE > HEIGHT THEN 0
              ELSE point.y
    IN Point(px, py)

_move(point, mv) == _move_through_walls(PointAdd(point, mv))

\* the reversal test without the wrap of the prospective head
_is_reverse_move_unwrapped(self, direction) ==
    IF Len(self.points) = 1 THEN FALSE
    ELSE PointAdd(head(self), _MOVES[direction]) = self.points[2]

_is_reverse_move(self, direction) ==
    IF Len(self.points) = 1 THEN FALSE
    ELSE _move(head(self), _MOVES[direction]) = self.points[2]

\* set_direction without the reversal test
set_direction_any(self, direction) ==
    IF direction = "NONE" THEN self
    ELSE [self EXCEPT !.direction = direction]

set_direction(self, direction) ==
    IF direction = "NONE" THEN self
    ELSE IF _is_reverse_move(self, direction) THEN self
    ELSE [self EXCEPT !.direction = direction]

\* the wall test made on the wrapped prospective head
collide_wall_wrapped(self) ==
    LET point == _move(head(self), current_move(self))
    IN IF point.x < 0 \/ point.x + RECT_SIZE > WIDTH THEN TRUE
       ELSE IF point.y < 0 \/ point.y + RECT_SIZE > HEIGHT THEN TRUE
       ELSE FALSE

\* the wall test one cell short of the right and bottom edges
collide_wall_short(self) ==
    LET point == PointAdd(head(self), current_move(self))
    IN IF point.x < 0 \/ point.x + RECT_SIZE >= WIDTH THEN TRUE
       ELSE IF point.y < 0 \/ point.y + RECT_SIZE >= HEIGHT THEN TRUE
       ELSE FALSE

collide_wall(self) ==
    LET point == PointAdd(head(self), current_move(self))
    IN IF point.x < 0 \/ point.x + RECT_SIZE > WIDTH THEN TRUE
       ELSE IF point.y < 0 \/ point.y + RECT_SIZE > HEIGHT THEN TRUE
       ELSE FALSE

\* the duplicate test made on the segments behind the head only
collide_itself_behind_head(self) ==
    Cardinality({self.points[i] : i \in 2..Len(self.points)}) # Len(self.points) - 1

\* the duplicate test made on the head against the other segments only
collide_itself_head_only(self) ==
    \E i \in 2..Len(self.points) : self.points[i] = self.points[1]

\* len(set(self.points)) != len(self.points)
collide_itself(self) ==
    Cardinality({self.points[i] : i \in 1..Len(self.points)}) # Len(self.points)

\* move without the cut to self.size
move_uncut(self) ==
    IF current_move(self) = Point(0, 0) THEN self
    ELSE [self EXCEPT !.points = <<_move(head(self), current_move(self))>> \o self.points]

\* move without the test of the zero vector: the head is inserted again
move_unguarded(self) ==
    LET inserted == <<_move(head(self), current_move(self))>> \o self.points
        n == IF self.size < Len(inserted) THEN self.size ELSE Len(inserted)
    IN [self EXCEPT !.points = SubSeq(inserted, 1, n)]

\* self.points[: self.size] after self.points.insert(0, new head)
move(self) ==
    IF current_move(self) = Point(0, 0) THEN self
    ELSE LET inserted == <<_move(head(self), current_move(self))>> \o self.points
             n == IF self.size < Len(inserted) THEN self.size ELSE Len(inserted)
         IN [self EXCEPT !.points = SubSeq(inserted, 1, n)]

\* eat with the colour put first in self.colors
eat_colour_first(self, apple) ==
    IF head(self) = apple.point
    THEN [snake |-> [self EXCEPT !.size = self.size + 1,
                                 !.colors = <<apple.color>> \o self.colors],
          ret |-> TRUE]
    ELSE [snake |-> self, ret |-> FALSE]

\* eat without the colour of the apple
eat_colourless(self, apple) ==
    IF head(self) = apple.point
    THEN [snake |-> [self EXCEPT !.size = self.size + 1], ret |-> TRUE]
    ELSE [snake |-> self, ret |-> FALSE]

\* the snake after the call and the value returned
eat(self, apple) ==
    IF head(self) = apple.point
    THEN [snake |-> [self EXCEPT !.size = self.size + 1,
                                 !.colors = Append(self.colors, apple.color)],
          ret |-> TRUE]
    ELSE [snake |-> self, ret |-> FALSE]

(* ------------------------- new_snake_sized ---------------------------- *)

\* the pattern without its growth: 2, 2, 2, 2, ...
pattern_flat == [i \in 1..98 |-> 2]

\* [val for val in range(2, 100, 2) for _ in (0, 1)]: 2, 2, 4, 4, ..., 98, 98
pattern == [i \in 1..98 |-> 2 * ((i + 1) \div 2)]

\* cycle(moves): the move paired with the i-th entry of pattern
moves ==
    [i \in 1..98 |->
        CASE i % 4 = 1 -> <<RECT_SIZE, 0>>
          [] i % 4 = 2 -> <<0, RECT_SIZE>>
          [] i % 4 = 3 -> <<-RECT_SIZE, 0>>
          [] i % 4 = 0 -> <<0, -RECT_SIZE>>]

Reverse(s) == [i \in 1..Len(s) |-> s[Len(s) + 1 - i]]

new_snake ==
    LET w == (WIDTH \div RECT_SIZE) \div 2
        h == (HEIGHT \div RECT_SIZE) \div 2
        head_ == Point(w * RECT_SIZE, h * RECT_SIZE)
    IN Snake(<<head_>>, <<RED>>)

\* raise GameException("fail to create snake")
GameException == [raised |-> "fail to create snake"]

\* the result r of a call is a raised exception, not a returned value
Raised(r) == "raised" \in DOMAIN r

\* The loops of new_snake_sized carry the list of points built so far and
\* whether "return" has been reached; a run of iterations is evaluated as
\* its first half followed by its second half, which keeps the depth of
\* evaluation logarithmic in the number of iterations.

\* the body of the inner loop with the test of the length made after the
\* append
new_snake_sized_body_late(st, i, size) ==
    LET last == st.points[Len(st.points)]
        body_ == Point(last.x + moves[i][1], last.y + moves[i][2])
    IN [points |-> Append(st.points, body_),
        returned |-> Len(st.points) + 1 >= size]

\* the body of "for _ in range(n)", lines 196-200, for entry i of
\* zip(pattern, moves)
new_snake_sized_body(st, i, size) ==
    IF Len(st.points) >= size THEN [points |-> st.points, returned |-> TRUE]
    ELSE LET last == st.points[Len(st.points)]
             body_ == Point(last.x + moves[i][1], last.y + moves[i][2])
         IN [points |-> Append(st.points, body_), returned |-> FALSE]

\* iterations lo..hi of "for _ in range(n)" for entry i
RECURSIVE new_snake_sized_inner(_, _, _, _, _)
new_snake_sized_inner(st, i, lo, hi, size) ==
    IF st.returned THEN st
    ELSE IF lo = hi THEN new_snake_sized_body(st, i, size)
    ELSE LET mid == (lo + hi) \div 2
         IN new_snake_sized_inner(
                new_snake_sized_inner(st, i, lo, mid, size), i, mid + 1, hi, size)

\* entries lo..hi of "for n, move in zip(pattern, moves)"
RECURSIVE new_snake_sized_loop(_, _, _, _)
new_snake_sized_loop(st, lo, hi, size) ==
    IF st.returned THEN st
    ELSE IF lo = hi THEN new_snake_sized_inner(st, lo, 1, pattern[lo], size)
    ELSE LET mid == (lo + hi) \div 2
         IN new_snake_sized_loop(
                new_snake_sized_loop(st, lo, mid, size), mid + 1, hi, size)

\* rnd: the size - 1 values drawn by random_color()
new_snake_sized(size, rnd) ==
    LET w == (WIDTH \div RECT_SIZE) \div 2
        h == (HEIGHT \div RECT_SIZE) \div 2
        head_ == Point(w * RECT_SIZE, h * RECT_SIZE)
        st == new_snake_sized_loop([points |-> <<head_>>, returned |-> FALSE],
                                   1, Len(pattern), size)
    IN IF st.returned THEN Snake(Reverse(st.points), <<RED>> \o rnd)
       ELSE GameException

(* ----------------------------- new_apple ------------------------------ *)

\* free_cells with the head's cell left in
free_cells_but_head(snake) ==
    {c \in (0..(WIDTH \div RECT_SIZE) - 1) \X (0..(HEIGHT \div RECT_SIZE) - 1) :
        \A i \in 2..Len(snake.points) :
            c # <<snake.points[i].x \div RECT_SIZE, snake.points[i].y \div RECT_SIZE>>}

\* free_cells after the two loops of new_apple: pairs (x, y) in cells
free_cells(snake) ==
    {c \in (0..(WIDTH \div RECT_SIZE) - 1) \X (0..(HEIGHT \div RECT_SIZE) - 1) :
        \A i \in 1..Len(snake.points) :
            c # <<snake.points[i].x \div RECT_SIZE, snake.points[i].y \div RECT_SIZE>>}

\* the apples new_apple can return; the empty set stands for GameException.
\* "h, w = random.choice(...)" names the pair's first component h, its second w
new_apple(snake) ==
    {Apple(Point(c[2] * RECT_SIZE, c[1] * RECT_SIZE), col) :
        c \in free_cells(snake), col \in random_color}

(* ------------------------------ run_game ------------------------------ *)

VARIABLES
    snake,       \* run_game's snake; the Snake under test in SnakeSpec
    apple,       \* run_game's apple; the Apple last passed to eat in SnakeSpec
    direction,   \* run_game's direction: the last direction key
    game_over,
    game_speed,
    wall, body, speed, size,   \* run_game's parameters
    pc,          \* the exit the last pass of the main loop took (the last
                 \* method called on the Snake in SnakeSpec)
    ret          \* the value the last method call returned in SnakeSpec

vars ==
    <<snake, apple, direction, game_over, game_speed, wall, body, speed, size, pc, ret>>

params == <<wall, body, speed, size>>

\* sequences of n values of random_color()
RandomColors(n) == [1..n -> random_color]

\* the results init_state() can return for the given size; new_apple's
\* GameException is not caught here, and a spiral never fills the grid
init_state(sz) ==
    UNION {{[snake |-> new_snake_sized(sz, rnd), apple |-> a, direction |-> "NONE"] :
                a \in new_apple(new_snake_sized(sz, rnd))} :
           rnd \in RandomColors(sz - 1)}

\* run_game up to the main loop, lines 265-291
Init ==
    /\ wall \in BOOLEAN
    /\ body \in BOOLEAN
    /\ speed \in BOOLEAN
    /\ size \in 1..MaxInitSize
    /\ game_speed = 10
    /\ \E st \in init_state(size) :
        /\ snake = st.snake
        /\ apple = st.apple
        /\ direction = st.direction
    /\ game_over = TRUE
    /\ pc = "init"
    /\ ret = "None"

\* K_s with the speed set back to its initial value
KeyStart_resetting_speed ==
    /\ \E st \in init_state(size) :
        /\ snake' = st.snake
        /\ apple' = st.apple
        /\ direction' = st.direction
    /\ game_over' = FALSE
    /\ game_speed' = 10
    /\ pc' = "start"
    /\ UNCHANGED <<params, ret>>

\* K_s, lines 301-304
KeyStart ==
    /\ \E st \in init_state(size) :
        /\ snake' = st.snake
        /\ apple' = st.apple
        /\ direction' = st.direction
    /\ game_over' = FALSE
    /\ pc' = "start"
    /\ UNCHANGED <<game_speed, params, ret>>

\* a direction key given to the snake at once, not at the next pass
KeyDirection_at_once(d) ==
    /\ direction' = d
    /\ snake' = set_direction(snake, d)
    /\ UNCHANGED <<apple, game_over, game_speed, params, pc, ret>>

\* K_UP, K_DOWN, K_LEFT, K_RIGHT, lines 305-307
KeyDirection(d) ==
    /\ direction' = d
    /\ UNCHANGED <<snake, apple, game_over, game_speed, params, pc, ret>>

\* one pass of the main loop after its events, lines 309-345, explored
\* while the size is below max_size and the speed below 10 + max_speed_ups
Pass(max_size, max_speed_ups) ==
    IF game_over
    THEN /\ pc' = "game_over"
         /\ UNCHANGED <<snake, apple, direction, game_over, game_speed, params, ret>>
    ELSE LET s1 == set_direction(snake, direction)
             e == eat(s1, apple)
         IN IF wall /\ collide_wall(s1)
            THEN /\ snake' = s1
                 /\ game_over' = TRUE
                 /\ pc' = "collide_wall"
                 /\ UNCHANGED <<apple, direction, game_speed, params, ret>>
            ELSE IF body /\ collide_itself(s1)
            THEN /\ snake' = s1
                 /\ game_over' = TRUE
                 /\ pc' = "collide_itself"
                 /\ UNCHANGED <<apple, direction, game_speed, params, ret>>
            ELSE IF e.ret
            THEN \* explored while the size and the speed are within bounds
                 /\ s1.size < max_size
                 /\ speed => game_speed < 10 + max_speed_ups
                 /\ IF new_apple(e.snake) = {}
                    THEN /\ snake' = e.snake
                         /\ game_over' = TRUE
                         /\ pc' = "apple_fail"
                         /\ UNCHANGED <<apple, direction, game_speed, params, ret>>
                    ELSE /\ apple' \in new_apple(e.snake)
                         /\ game_speed' = IF speed THEN game_speed + 1 ELSE game_speed
                         /\ snake' = move(e.snake)
                         /\ pc' = "eat"
                         /\ UNCHANGED <<direction, game_over, params, ret>>
            ELSE /\ snake' = move(e.snake)
                 /\ pc' = "move"
                 /\ UNCHANGED <<apple, direction, game_over, game_speed, params, ret>>

Tick == Pass(MaxSize, MaxSpeedUps)

\* run_game's return (pygame.QUIT, K_ESCAPE) ends the behaviour: it is the
\* stuttering every behaviour of Spec may end in
Next ==
    \/ KeyStart
    \/ \E d \in Direction \ {"NONE"} : KeyDirection(d)
    \/ Tick

Spec == Init /\ [][Next]_vars

(* --------------------- a round played to the end ---------------------- *)
(* FullSpec is run_game(size=1, wall=True, body=True) with the size left   *)
(* free to reach the number of cells, so that new_apple meets a full grid. *)

FullInit ==
    /\ Init
    /\ wall
    /\ body
    /\ size = 1

FullTick == Pass(COLS * ROWS + 1, COLS * ROWS)

FullNext ==
    \/ KeyStart
    \/ \E d \in Direction \ {"NONE"} : KeyDirection(d)
    \/ FullTick

FullSpec == FullInit /\ [][FullNext]_vars

(* ------------------- the Snake class on its own ----------------------- *)
(* SnakeSpec constructs a Snake as test.py does, from any list of cells of  *)
(* the grid, and calls its methods in any order.                            *)

Cells == {Point(cx * RECT_SIZE, cy * RECT_SIZE) : cx \in 0..COLS - 1, cy \in 0..ROWS - 1}

\* the lists of points given to the constructor
Chains == UNION {[1..n -> Cells] : n \in 1..MaxLen}

\* the apples given to eat: one on the head and one on a cell test.py uses
Apples(self) ==
    {Apple(p, col) : p \in {head(self), Point(RECT_SIZE, RECT_SIZE)}, col \in random_color}

\* the apple of test_eat, held while no call of eat has been the last call
NoApple == Apple(Point(0, 0), WHITE)

\* direction and apple hold the argument of the last call when it took one
SnakeInit ==
    /\ \E points \in Chains : snake = Snake(points, [i \in 1..Len(points) |-> RED])
    /\ apple = NoApple
    /\ direction = "NONE"
    /\ pc = "Snake"
    /\ ret = "None"
    /\ game_over = TRUE
    /\ game_speed = 10
    /\ wall = FALSE
    /\ body = FALSE
    /\ speed = FALSE
    /\ size = 1

CallSetDirection(d) ==
    /\ direction' = d
    /\ apple' = NoApple
    /\ snake' = set_direction(snake, d)
    /\ pc' = "set_direction"
    /\ ret' = "None"
    /\ UNCHANGED <<game_over, game_speed, params>>

CallMove ==
    /\ direction' = "NONE"
    /\ apple' = NoApple
    /\ snake' = move(snake)
    /\ pc' = "move"
    /\ ret' = "None"
    /\ UNCHANGED <<game_over, game_speed, params>>

\* explored while the size is at most MaxLen
CallEat(a) ==
    /\ eat(snake, a).ret => snake.size <= MaxLen
    /\ direction' = "NONE"
    /\ apple' = a
    /\ snake' = eat(snake, a).snake
    /\ pc' = "eat"
    /\ ret' = IF eat(snake, a).ret THEN "True" ELSE "False"
    /\ UNCHANGED <<game_over, game_speed, params>>

\* test_collide_itself: the call returns a bool and the Snake is not assigned
CallCollideItself ==
    /\ direction' = "NONE"
    /\ apple' = NoApple
    /\ snake' = snake
    /\ pc' = "collide_itself"
    /\ ret' = IF collide_itself(snake) THEN "True" ELSE "False"
    /\ UNCHANGED <<game_over, game_speed, params>>

\* test_collide_wall: the direction is given to the constructed Snake by
\* set_direction before the call, as the test does
CallCollideWall ==
    /\ direction' = "NONE"
    /\ apple' = NoApple
    /\ snake' = snake
    /\ pc' = "collide_wall"
    /\ ret' = IF collide_wall(snake) THEN "True" ELSE "False"
    /\ UNCHANGED <<game_over, game_speed, params>>

SnakeNext ==
    \/ \E d \in Direction : CallSetDirection(d)
    \/ CallMove
    \/ \E a \in Apples(snake) : CallEat(a)
    \/ CallCollideItself
    \/ CallCollideWall

SnakeSpec == SnakeInit /\ [][SnakeNext]_vars

(* ---------------------- new_snake_sized on its own -------------------- *)
(* SpiralSpec calls new_snake_sized with growing sizes: 1 to MaxSpiral,     *)
(* then the sizes around the number of steps of the pattern.                *)

RECURSIVE SumSeq(_, _)
SumSeq(s, n) == IF n = 0 THEN 0 ELSE SumSeq(s, n - 1) + s[n]

\* the number of points the loops can append
PatternSteps == SumSeq(pattern, Len(pattern))

SpiralSizes ==
    (1..MaxSpiral) \cup ((PatternSteps - MaxOver + 1)..(PatternSteps + MaxOver))

\* size holds the argument of the last call (0: no call yet), ret what the
\* call did; a call that raises assigns nothing
SpiralInit ==
    /\ snake = new_snake
    /\ size = 0
    /\ pc = "new_snake"
    /\ ret = "Snake"
    /\ apple = NoApple
    /\ direction = "NONE"
    /\ game_over = TRUE
    /\ game_speed = 10
    /\ wall = FALSE
    /\ body = FALSE
    /\ speed = FALSE

\* the sizes are asked for in increasing order; c is the colour
\* random_color() returns throughout the call
CallNewSnakeSized(n, c) ==
    /\ n > size
    /\ \A m \in SpiralSizes : m > size => n <= m
    /\ LET r == new_snake_sized(n, [i \in 1..n - 1 |-> c])
       IN IF Raised(r)
          THEN /\ ret' = "GameException"
               /\ snake' = snake
          ELSE /\ ret' = "Snake"
               /\ snake' = r
    /\ size' = n
    /\ pc' = "new_snake_sized"
    /\ UNCHANGED <<apple, direction, game_over, game_speed, wall, body, speed>>

SpiralNext == \E n \in SpiralSizes, c \in random_color : CallNewSnakeSized(n, c)

SpiralSpec == SpiralInit /\ [][SpiralNext]_vars

(* ------------------------ vocabulary of the claims -------------------- *)

\* the displacement of one step in direction d, in pixels
DeltaX(d) == CASE d = "LEFT" -> -RECT_SIZE [] d = "RIGHT" -> RECT_SIZE [] OTHER -> 0
DeltaY(d) == CASE d = "UP" -> -RECT_SIZE [] d = "DOWN" -> RECT_SIZE [] OTHER -> 0

\* the cell one step from p in direction d, not wrapped
Ahead(p, d) == Point(p.x + DeltaX(d), p.y + DeltaY(d))

InGrid(p) == 0 <= p.x /\ p.x < WIDTH /\ 0 <= p.y /\ p.y < HEIGHT

\* a coordinate below 0 or at/above the extent goes to the opposite edge
WrapEdge(v, extent) ==
    IF v < 0 THEN extent - RECT_SIZE ELSE IF v >= extent THEN 0 ELSE v

\* the cell one step from p in direction d under the wrap policy
AheadWrapped(p, d) ==
    Point(WrapEdge(p.x + DeltaX(d), WIDTH), WrapEdge(p.y + DeltaY(d), HEIGHT))

Opposite(d) ==
    CASE d = "UP" -> "DOWN" [] d = "DOWN" -> "UP"
      [] d = "LEFT" -> "RIGHT" [] d = "RIGHT" -> "LEFT" [] OTHER -> "NONE"

PointSet(points) == {points[i] : i \in 1..Len(points)}

HasDuplicate(points) ==
    \E i, j \in 1..Len(points) : i < j /\ points[i] = points[j]

Min(a, b) == IF a < b THEN a ELSE b

(* -------------------------------- C1 ---------------------------------- *)

\* C1: whenever new_apple succeeds, the apple lies on a cell of the grid that
\* no segment of the snake it was given occupies: at the start, at every
\* restart, and after every eat (where the snake given is the one before
\* the move of that pass).
C1_AppleOnFreeCell ==
    /\ [](pc \in {"init", "start"} =>
            InGrid(apple.point) /\ apple.point \notin PointSet(snake.points))
    /\ [][Tick /\ pc' = "eat" =>
            InGrid(apple'.point) /\ apple'.point \notin PointSet(snake.points)]_vars

(* -------------------------------- C2 ---------------------------------- *)

\* C2: set_direction(d) with d other than NONE keeps the direction when the
\* chain has at least two segments and the head moved by d, wrapped, is the
\* second segment; otherwise it sets the direction to d (so a chain of one
\* segment rejects nothing).  Positions, size and colors are never changed.
C2_SetDirection ==
    [][\A d \in Direction \ {"NONE"} : CallSetDirection(d) =>
        /\ snake'.direction =
              IF /\ Len(snake.points) >= 2
                 /\ AheadWrapped(snake.points[1], d) = snake.points[2]
              THEN snake.direction
              ELSE d
        /\ Len(snake.points) = 1 => snake'.direction = d
        /\ snake'.points = snake.points
        /\ snake'.size = snake.size
        /\ snake'.colors = snake.colors]_vars

\* a call that was rejected because the head reaches the second segment
\* through the left edge
C2_Witness ==
    /\ pc = "set_direction"
    /\ direction = "LEFT"
    /\ Len(snake.points) >= 2
    /\ snake.points[1].x = 0
    /\ snake.points[2] = Point(WIDTH - RECT_SIZE, snake.points[1].y)
    /\ snake.direction # "LEFT"

(* -------------------------------- C3 ---------------------------------- *)

\* C3: in every reachable state of a session, a chain of two segments or
\* more does not have the direction that takes the head, wrapped, onto the
\* second segment; and no move puts the head on the cell the second segment
\* had before the move.
C3_NeverReverse ==
    /\ [](Len(snake.points) >= 2 /\ snake.direction # "NONE" =>
            AheadWrapped(snake.points[1], snake.direction) # snake.points[2])
    /\ [][/\ Tick
          /\ pc' \in {"eat", "move"}
          /\ snake'.direction # "NONE"
          /\ Len(snake.points) >= 2
          => snake'.points[1] # snake.points[2]]_vars

\* a pass has moved a chain whose last direction key asks for the reversal
C3_Witness ==
    /\ pc = "move"
    /\ ~game_over
    /\ Len(snake.points) >= 2
    /\ snake.direction # "NONE"
    /\ direction # "NONE"
    /\ AheadWrapped(snake.points[1], direction) = snake.points[2]

(* -------------------------------- C4 ---------------------------------- *)

\* C4, as claimed: with the self-collision rule enabled the fatal move is
\* never committed, so the positions of the chain are pairwise distinct in
\* every state a pass of the loop leaves after its move().
C4_NoSelfIntersection ==
    body /\ pc \in {"eat", "move"} => ~HasDuplicate(snake.points)

\* C4, amended: with the self-collision rule enabled the test is made on the
\* positions the chain has at the start of a pass, after the fatal move was
\* committed: a pass that starts while playing with two equal positions in
\* the chain ends the round and leaves positions, size, colors, the apple
\* and the tick rate as they were.
C4_CollisionSeenOnNextPass ==
    [][Tick /\ body /\ ~game_over /\ HasDuplicate(snake.points) =>
        /\ game_over'
        /\ pc' \in {"collide_itself", "collide_wall"}
        /\ ~wall => pc' = "collide_itself"
        /\ snake'.points = snake.points
        /\ snake'.size = snake.size
        /\ snake'.colors = snake.colors
        /\ apple' = apple
        /\ game_speed' = game_speed]_vars

\* a round that started with one segment has ended on a chain whose head is
\* on another segment
C4_Witness ==
    /\ body
    /\ size = 1
    /\ game_over
    /\ pc = "collide_itself"
    /\ \E i \in 2..Len(snake.points) : snake.points[i] = snake.points[1]

(* -------------------------------- C5 ---------------------------------- *)

\* C5: with the wall-collision rule enabled, a pass made while playing in
\* which the head plus the delta of the direction in force (after the last
\* direction key was applied) is off the grid ends the round and leaves
\* positions, size, colors and the apple as they were; and the head a move
\* produces is the old head plus the delta, on the grid, never wrapped.
C5_WallEndsRound ==
    [][Tick /\ wall /\ ~game_over =>
        /\ ~InGrid(Ahead(snake.points[1], snake'.direction)) =>
              /\ game_over'
              /\ pc' = "collide_wall"
              /\ snake'.points = snake.points
              /\ snake'.size = snake.size
              /\ snake'.colors = snake.colors
              /\ apple' = apple
        /\ pc' \in {"eat", "move"} /\ snake'.direction # "NONE" =>
              /\ snake'.points[1] = Ahead(snake.points[1], snake'.direction)
              /\ InGrid(snake'.points[1])]_vars

\* a round has ended at the wall with the head on the left edge going left
C5_Witness ==
    /\ wall
    /\ game_over
    /\ pc = "collide_wall"
    /\ snake.direction = "LEFT"
    /\ snake.points[1].x = 0

(* -------------------------------- C6 ---------------------------------- *)

\* C6: in every reachable state of a session the number of positions of the
\* chain equals its size field.
C6_LenEqualsSize == Len(snake.points) = snake.size

(* -------------------------------- C7 ---------------------------------- *)

\* C7: in every reachable state of a session the colors sequence is as long
\* as the positions sequence.
C7_ColorsLenEqualsPointsLen == Len(snake.colors) = Len(snake.points)

(* -------------------------------- C8 ---------------------------------- *)

\* C8: eat(apple) returns true exactly when the head is on the apple; then
\* size grows by one and the apple's colour is appended to colors, positions
\* and direction staying as they were; when it returns false nothing changes.
C8_Eat ==
    [][\A a \in Apples(snake) : CallEat(a) =>
        /\ ret' = "True" <=> snake.points[1] = a.point
        /\ ret' \in {"True", "False"}
        /\ ret' = "True" =>
              /\ snake'.size = snake.size + 1
              /\ snake'.colors = Append(snake.colors, a.color)
              /\ snake'.points = snake.points
              /\ snake'.direction = snake.direction
        /\ ret' = "False" => snake' = snake]_vars

\* eat has just returned true on a chain of two segments or more
C8_Witness ==
    /\ pc = "eat"
    /\ ret = "True"
    /\ Len(snake.points) >= 2
    /\ snake.points[1] = apple.point
    /\ snake.size > Len(snake.points)
    /\ snake.colors[Len(snake.colors)] = apple.color

(* -------------------------------- C9 ---------------------------------- *)

\* C9: move() with a direction other than NONE puts every retained segment
\* one index further, the new length is min(old length + 1, size), and
\* colors, size and direction stay as they were.
C9_Move ==
    [][CallMove /\ snake.direction # "NONE" =>
        /\ Len(snake'.points) = Min(Len(snake.points) + 1, snake.size)
        /\ \A i \in 1..Len(snake'.points) - 1 : snake'.points[i + 1] = snake.points[i]
        /\ snake'.colors = snake.colors
        /\ snake'.size = snake.size
        /\ snake'.direction = snake.direction]_vars

\* a move has just been made by a chain that grew after it was constructed
\* and has reached its size
C9_Witness ==
    /\ pc = "move"
    /\ snake.direction # "NONE"
    /\ Len(snake.points) >= 2
    /\ Len(snake.points) = snake.size
    /\ snake.colors[Len(snake.colors)] # RED

(* -------------------------------- C10 --------------------------------- *)

\* C10: the head after move() is the old head plus the direction's delta
\* taken modulo the grid: LEFT from x = 0 gives the last column, UP from
\* y = 0 the last row, RIGHT and DOWN from the far edges give 0; a chain of
\* one segment that moves and then moves the opposite way is back where it
\* was.
C10_Wrap ==
    [][CallMove /\ snake.direction # "NONE" =>
        LET old == snake.points[1]
            new == snake'.points[1]
            d == snake.direction
        IN /\ new.x = (old.x + DeltaX(d) + WIDTH) % WIDTH
           /\ new.y = (old.y + DeltaY(d) + HEIGHT) % HEIGHT
           /\ d = "LEFT" /\ old.x = 0 => new = Point(WIDTH - RECT_SIZE, old.y)
           /\ d = "UP" /\ old.y = 0 => new = Point(old.x, HEIGHT - RECT_SIZE)
           /\ d = "RIGHT" /\ old.x = WIDTH - RECT_SIZE => new = Point(0, old.y)
           /\ d = "DOWN" /\ old.y = HEIGHT - RECT_SIZE => new = Point(old.x, 0)
           /\ Len(snake.points) = 1 /\ snake.size = 1 =>
                 move(set_direction(snake', Opposite(d))).points = <<old>>]_vars

\* a chain of one segment has just moved up from the first row to the last
C10_Witness ==
    /\ pc = "move"
    /\ snake.direction = "UP"
    /\ Len(snake.points) = 1
    /\ snake.size = 1
    /\ snake.points[1].y = HEIGHT - RECT_SIZE

(* -------------------------------- C11 --------------------------------- *)

\* the step is a start signal: only K_s leaves pc at "start" with no
\* direction key pending
StartSignal == pc' = "start" /\ direction' = "NONE"

\* C11: within one round (no start signal in between) a chain whose direction
\* is not NONE never has direction NONE again, and a pass of the main loop
\* that leaves the chain's direction NONE (no accepted key yet) leaves its
\* positions unchanged.
C11_DirectionLeavesNoneOnce ==
    [][/\ (~StartSignal /\ snake.direction # "NONE") => snake'.direction # "NONE"
       /\ (Tick /\ ~game_over /\ snake'.direction = "NONE") =>
              /\ snake.direction = "NONE"
              /\ snake'.points = snake.points]_vars

\* a pass made while playing with a chain of several segments at rest
C11_Witness ==
    /\ ~game_over
    /\ pc = "move"
    /\ snake.direction = "NONE"
    /\ Len(snake.points) >= 2

(* -------------------------------- C12 --------------------------------- *)

\* C12: collide_itself() returns true exactly when two segments of the chain
\* have the same position, and it changes nothing of the chain.
C12_CollideItself ==
    [][CallCollideItself =>
        /\ ret' = "True" <=> HasDuplicate(snake.points)
        /\ ret' \in {"True", "False"}
        /\ snake' = snake]_vars

\* a true answer for a chain whose equal segments are both behind the head
C12_Witness ==
    /\ pc = "collide_itself"
    /\ ret = "True"
    /\ Len(snake.points) = 3
    /\ snake.points[2] = snake.points[3]
    /\ snake.points[1] # snake.points[2]

\* a false answer for a chain of three segments
C12_WitnessDistinct ==
    /\ pc = "collide_itself"
    /\ ret = "False"
    /\ Len(snake.points) = 3

(* -------------------------------- C13 --------------------------------- *)

\* C13: collide_wall() returns true exactly when the head moved by the
\* current direction, without wrapping, lies outside the grid (so never
\* for direction NONE with the head inside), and it changes nothing of the
\* chain: positions, size, colors and direction.
C13_CollideWall ==
    [][CallCollideWall =>
        /\ ret' = "True" <=> ~InGrid(Ahead(snake.points[1], snake.direction))
        /\ ret' \in {"True", "False"}
        /\ (snake.direction = "NONE" /\ InGrid(snake.points[1])) => ret' = "False"
        /\ snake'.points = snake.points
        /\ snake'.size = snake.size
        /\ snake'.colors = snake.colors
        /\ snake'.direction = snake.direction]_vars

\* a false answer one cell before the bottom edge, where the next step is
\* still inside
C13_Witness ==
    /\ pc = "collide_wall"
    /\ ret = "False"
    /\ snake.direction = "DOWN"
    /\ snake.points[1].y = HEIGHT - 2 * RECT_SIZE

\* a true answer at the left edge
C13_WitnessOutside ==
    /\ pc = "collide_wall"
    /\ ret = "True"
    /\ snake.direction = "LEFT"
    /\ snake.points[1].x = 0

(* -------------------------------- C14 --------------------------------- *)

AllCellsOccupied(points) == \A c \in Cells : c \in PointSet(points)

C14_Exhausted ==
    /\ pc = "apple_fail"
    /\ game_over


\* C14: new_apple fails exactly when every cell of the grid holds a segment;
\* a pass made while playing that eats with every cell occupied ends the
\* round at once: game over, no move (the positions stay), the apple and
\* the speed unchanged.
C14_SpawnerFailsOnFullGrid ==
    /\ [](new_apple(snake) = {} <=> AllCellsOccupied(snake.points))
    /\ [][(FullTick /\ ~game_over /\ snake'.size = snake.size + 1) =>
            IF AllCellsOccupied(snake.points)
            THEN /\ game_over'
                 /\ pc' = "apple_fail"
                 /\ snake'.points = snake.points
                 /\ game_speed' = game_speed
                 /\ apple' = apple
            ELSE /\ ~game_over'
                 /\ pc' = "eat"]_vars

\* the round ended by a full grid with the speed option on, after the speed
\* had risen with every apple of the round
C14_Witness ==
    /\ C14_Exhausted
    /\ speed
    /\ game_speed = 10 + (COLS * ROWS - 1)
    /\ AllCellsOccupied(snake.points)
    /\ snake.size = Len(snake.points) + 1

(* -------------------------------- C15 --------------------------------- *)

C15_Accepted == pc = "new_snake_sized" /\ ret = "Snake"


\* the distance of two points, summed over the axes
Distance(p, q) ==
    (IF p.x > q.x THEN p.x - q.x ELSE q.x - p.x)
        + (IF p.y > q.y THEN p.y - q.y ELSE q.y - p.y)

\* C15: for every size n that new_snake_sized accepts, the chain returned
\* has exactly n positions, all different, each one cell from the one before
\* it on a single axis; n colors, RED first; size n; direction NONE.
C15_SpiralShape ==
    C15_Accepted =>
        /\ Len(snake.points) = size
        /\ Cardinality(PointSet(snake.points)) = size
        /\ \A i \in 1..size - 1 :
              Distance(snake.points[i], snake.points[i + 1]) = RECT_SIZE
        /\ Len(snake.colors) = size
        /\ snake.colors[1] = RED
        /\ snake.size = size
        /\ snake.direction = "NONE"

\* the longest chain accepted
C15_Witness ==
    /\ C15_Accepted
    /\ size = PatternSteps
    /\ Len(snake.points) = PatternSteps

(* -------------------------------- C18 --------------------------------- *)

\* C18: new_snake_sized(n) raises GameException exactly when n is above the
\* number of steps of the pattern 2, 2, 4, 4, ..., 98, 98 (their sum), and
\* returns a chain for every n from 1 to that number.
C18_RaisesAboveLimit ==
    pc = "new_snake_sized" =>
        /\ ret = "GameException" <=> size > PatternSteps
        /\ ret = "Snake" <=> size \in 1..PatternSteps
        /\ PatternSteps = (2 + 98) * 49

\* the first size refused, right after the last size accepted
C18_Witness ==
    /\ pc = "new_snake_sized"
    /\ ret = "GameException"
    /\ size = PatternSteps + 1
    /\ Len(snake.points) = PatternSteps

(* -------------------------------- C16 --------------------------------- *)

\* C16: in game over no pass of the main loop and no direction key changes
\* the chain (positions, size, colors, direction), the apple or the speed;
\* game over is left only by the start signal, which installs a chain of the
\* configured size with direction NONE, an apple of new_apple for that chain,
\* no pending direction, and the playing state.
C16_GameOverIsInert ==
    [][game_over =>
        /\ game_over' =>
              /\ snake' = snake
              /\ apple' = apple
              /\ game_speed' = game_speed
        /\ ~game_over' =>
              /\ StartSignal
              /\ Len(snake'.points) = size
              /\ snake'.size = size
              /\ Len(snake'.colors) = size
              /\ snake'.direction = "NONE"
              /\ snake'.points[size] = new_snake.points[1]
              /\ apple' \in new_apple(snake')
              /\ game_speed' = game_speed]_vars

\* a pass made in game over with a key pending that a playing pass would
\* have given to the chain
C16_Witness ==
    /\ game_over
    /\ pc = "game_over"
    /\ direction = "LEFT"
    /\ snake.direction = "UP"
    /\ Len(snake.points) = 1

\* a round started again after a round that ended
C16_WitnessRestart ==
    /\ ~game_over
    /\ pc = "start"
    /\ game_speed > 10

(* -------------------------------- C17 --------------------------------- *)

\* the step is a playing pass that ate and got a new apple
AteAndRespawned ==
    /\ ~game_over
    /\ ~game_over'
    /\ snake'.size = snake.size + 1

\* C17: game_speed rises by exactly 1 in a playing pass that eats and gets a
\* new apple with the speed option on, and no other step changes it: not a
\* pass without eat, an eat that meets a full grid, a collision, a pass in
\* game over, a key, a restart, or any pass with the option off.  It starts
\* at 10 and never goes below it.
C17_SpeedCountsApples ==
    /\ [](game_speed >= 10 /\ (~speed => game_speed = 10))
    /\ [](pc = "init" => game_speed = 10)
    /\ [][game_speed' = IF speed /\ AteAndRespawned
                        THEN game_speed + 1
                        ELSE game_speed]_vars

\* the speed raised in two rounds: the second apple is eaten by a chain
\* that has eaten once since its start
C17_Witness ==
    /\ speed
    /\ pc = "eat"
    /\ game_speed = 12
    /\ snake.size = size + 1

(* -------------------------------- C19 --------------------------------- *)

\* C19: in every state, from the chain new_snake_sized seeds on, every
\* segment of the chain lies inside the grid.
C19_SegmentsInsideGrid ==
    \A i \in 1..Len(snake.points) : InGrid(snake.points[i])

(* -------------------------------- C20 --------------------------------- *)

\* C20: in every state colors has size entries and points between 1 and
\* size entries; a pass that moved the chain in a direction other than NONE,
\* with points at most one short of size before the move, leaves points with
\* exactly size entries.
C20_Lengths ==
    /\ [](/\ Len(snake.colors) = snake.size
          /\ 1 <= Len(snake.points)
          /\ Len(snake.points) <= snake.size)
    /\ [][(/\ Tick
           /\ pc' \in {"move", "eat"}
           /\ ~game_over
           /\ snake'.direction # "NONE"
           /\ Len(snake.points) + 1 >= snake'.size) =>
              Len(snake'.points) = snake'.size]_vars

\* a chain that grew by the move of the pass in which it ate
C20_Witness ==
    /\ pc = "eat"
    /\ snake.direction # "NONE"
    /\ snake.size = size + 1
    /\ Len(snake.points) = snake.size

\* a chain that was two short of its size before the move of the pass, and
\* is one short after it
C20_WitnessShort ==
    /\ pc = "move"
    /\ snake.direction # "NONE"
    /\ Len(snake.points) + 1 = snake.size

====
